---- MODULE Spec2Model ----
(***************************************************************************)
(* A model of the Stroke geometry engine of @hyrious/ink (src/src/ink.ts). *)
(*                                                                         *)
(* Numbers.  JavaScript numbers are modelled by exact rationals <<n, d>>   *)
(* (d > 0, lowest terms) with NaN == <<0, 0>> for 0/0.  The raw points are *)
(* drawn from a set whose pairwise distances are whole numbers (a 3-4-5    *)
(* triangle), so Math.hypot is rational on every pair the model can form.  *)
(***************************************************************************)
EXTENDS Integers, Sequences, FiniteSets, TLC

(***************************************************************************)
(* Bounds of the model                                                     *)
(***************************************************************************)
\* Work done on one Stroke: raw points handed over (create, push, insert,
\* buffered ones included) plus insert() calls made.
MaxWork == 5
\* Longest batch given to insert() or create().
MaxBatch == 2
\* Raw points of a stroke that two replicas exchange
MaxSource == 4
\* Work done on the two Strokes that are fed the same samples (as MaxWork)
MaxTimeWork == 3
\* Last value of the clock, in milliseconds
MaxClock == 120
\* Longest batch that a stroke with turns is created from
MaxTurn == 4
\* Most update() calls made on the Spring that is looked at alone
MaxUpdates == 3

(***************************************************************************)
(* Program constants: const enum C of src/src/ink.ts                       *)
(***************************************************************************)
SkipDistance == 4
MinDistance == 1000
CoolingDown == 1
\* TailDistance = 0.4, PressureChangeSpeed = 0.3, DotSize = 0.36,
\* MinRadius = 0.75 are rationals, defined with Stroke.outline below.

(***************************************************************************)
(* Numbers                                                                 *)
(***************************************************************************)
Abs(n) == IF n < 0 THEN -n ELSE n

RECURSIVE GCD(_, _)
GCD(a, b) == IF b = 0 THEN a ELSE GCD(b, a % b)

NaN == <<0, 0>>
IsNaN(a) == a[2] = 0

\* The number n/d; 0/0 is NaN.
R(n, d) ==
  IF d = 0 THEN NaN
  ELSE LET g == GCD(Abs(n), Abs(d))
           s == IF d < 0 THEN -1 ELSE 1
       IN <<(s * n) \div g, (s * d) \div g>>

I(n) == <<n, 1>>

\* The arithmetic divides by common factors before it multiplies, to keep
\* the intermediate integers small.
RAdd(a, b) == IF IsNaN(a) \/ IsNaN(b) THEN NaN
              ELSE LET g == GCD(a[2], b[2])
                   IN R(a[1] * (b[2] \div g) + b[1] * (a[2] \div g),
                        (a[2] \div g) * b[2])
RSub(a, b) == IF IsNaN(a) \/ IsNaN(b) THEN NaN
              ELSE LET g == GCD(a[2], b[2])
                   IN R(a[1] * (b[2] \div g) - b[1] * (a[2] \div g),
                        (a[2] \div g) * b[2])
RMul(a, b) == IF IsNaN(a) \/ IsNaN(b) THEN NaN
              ELSE LET g == GCD(Abs(a[1]), b[2])
                       h == GCD(Abs(b[1]), a[2])
                   IN R((a[1] \div g) * (b[1] \div h), (a[2] \div h) * (b[2] \div g))
RDiv(a, b) == IF IsNaN(a) \/ IsNaN(b) THEN NaN
              ELSE IF b[1] = 0 THEN NaN
              ELSE IF b[1] < 0 THEN RMul(a, <<-b[2], -b[1]>>)
              ELSE RMul(a, <<b[2], b[1]>>)
\* Every comparison with NaN is false.
RLt(a, b) == /\ ~IsNaN(a)
             /\ ~IsNaN(b)
             /\ LET g == GCD(a[2], b[2])
                IN a[1] * (b[2] \div g) < b[1] * (a[2] \div g)
\* Math.max / Math.min return NaN when an argument is NaN.
RMax(a, b) == IF IsNaN(a) \/ IsNaN(b) THEN NaN ELSE IF RLt(a, b) THEN b ELSE a
RMin(a, b) == IF IsNaN(a) \/ IsNaN(b) THEN NaN ELSE IF RLt(b, a) THEN b ELSE a

(***************************************************************************)
(* Vectors (vec.ts): records [x, y] of numbers                             *)
(***************************************************************************)
Vec(x, y) == [x |-> x, y |-> y]

\* Math.hypot on two numbers whose hypotenuse is rational.
Hypot(x, y) ==
  IF IsNaN(x) \/ IsNaN(y) THEN NaN
  ELSE LET a == Abs(x[1] * y[2])
           b == Abs(y[1] * x[2])
       IN R(CHOOSE n \in 0..(a + b) : n * n = a * a + b * b, x[2] * y[2])

norm(a) == LET d == Hypot(a.x, a.y) IN Vec(RDiv(a.x, d), RDiv(a.y, d))
add(a, b) == Vec(RAdd(a.x, b.x), RAdd(a.y, b.y))
sub(a, b) == Vec(RSub(a.x, b.x), RSub(a.y, b.y))
mul(a, n) == Vec(RMul(a.x, n), RMul(a.y, n))
per(a) == Vec(a.y, RSub(I(0), a.x))
neg(a) == Vec(RSub(I(0), a.x), RSub(I(0), a.y))
dot(a, b) == RAdd(RMul(a.x, b.x), RMul(a.y, b.y))
lerp(a, b, t) == add(a, mul(sub(b, a), t))
proj(a, b, c) == add(a, mul(b, c))

\* rot(p, C, r) for the angle r = C.PI * t, where t is the value of the
\* loop variable after k additions of step = 1 / 13.  The sine and cosine
\* are not rational: the rotated point is kept as the term (p, C, k); a
\* rotation by 0 is the point itself.
rot(p, c, k) == IF k = 0 THEN p ELSE [rot |-> p, about |-> c, turns |-> k]

(***************************************************************************)
(* Inputs                                                                  *)
(***************************************************************************)
Half == R(1, 2)
One == I(1)
Raw(x, y, r) == [x |-> I(x), y |-> I(y), r |-> r]
\* The raw points (RawPoint: a position and a pressure r) the callers feed.
\* (0,0)-(3,0) is below SkipDistance; (0,0)-(0,4) and (3,0)-(0,4) are not.
RawPoint == {Raw(0, 0, One), Raw(3, 0, Half), Raw(0, 4, One)}

RECURSIVE SeqsUpTo(_, _)
SeqsUpTo(S, n) ==
  IF n = 0 THEN {<<>>}
  ELSE LET T == SeqsUpTo(S, n - 1)
       IN T \cup {Append(t, e) : t \in {u \in T : Len(u) = n - 1}, e \in S}

Batches == SeqsUpTo(RawPoint, MaxBatch)

(***************************************************************************)
(* Point and Stroke                                                        *)
(***************************************************************************)
\* A Point that does not keep the running length
PointNoLength(p, r, v, d, l) == [p |-> Vec(p.x, p.y), r |-> r, v |-> v, d |-> d, l |-> I(0)]
\* new Point(p, r, v, d, l)
Point(p, r, v, d, l) == [p |-> Vec(p.x, p.y), r |-> r, v |-> v, d |-> d, l |-> l]

NoPending == [k \in {} |-> <<>>]

\* The fields of a Stroke object.
StrokeOf(points, length, sections, pending) ==
  [points |-> points, length |-> length, sections |-> sections, pending |-> pending]

Last(s) == s[Len(s)]

\* Stroke.updateSections.  Indexes are the source's 0-based indexes:
\* points[i] of the source is pts[i + 1] here.
RECURSIVE ScanSections(_, _, _)
ScanSections(pts, secs, i) ==
  IF i >= Len(pts) THEN secs
  ELSE IF RLt(pts[i + 1].d, I(MinDistance)) /\ RLt(dot(pts[i + 1].v, pts[i].v), I(0))
       THEN ScanSections(pts, Append(secs, i), i + CoolingDown + 1)
       ELSE ScanSections(pts, secs, i + 1)

SectionsStartAfterCooldown(secs) ==
  IF Len(secs) > 1 THEN Last(secs) + CoolingDown + 1 ELSE 2
SectionsStartFromOne(secs) == IF Len(secs) > 1 THEN Last(secs) + CoolingDown ELSE 1
SectionsStartNoCooldown(secs) == IF Len(secs) > 1 THEN Last(secs) ELSE 2
SectionsStart(secs) == IF Len(secs) > 1 THEN Last(secs) + CoolingDown ELSE 2

updateSections(s) ==
  [s EXCEPT !.sections = ScanSections(s.points, s.sections, SectionsStart(s.sections))]

\* this.length = d
updateLengthAssign(s, d) == [s EXCEPT !.length = d]

\* Stroke.updateLength(d)
updateLength(s, d) == [s EXCEPT !.length = RAdd(s.length, d)]

\* prev_.r = curr.r
skipPressureLast(prev_r, curr_r) == curr_r

\* The pressure the last point gets when the sample curr is skipped
skipPressure(prev_r, curr_r) == RMax(prev_r, curr_r)

\* Stroke.push(p, skip_sections) with C.Smoothing == 0 (curr = p).
push(s, p, skip_sections) ==
  IF Len(s.points) > 0
  THEN LET prev_ == Last(s.points)
           prev == prev_.p
           d == Hypot(RSub(p.x, prev.x), RSub(p.y, prev.y))
           length == updateLength(s, d).length
       IN IF RLt(RSub(length, prev_.l), I(SkipDistance))
          THEN [s EXCEPT !.length = length,
                         !.points[Len(s.points)].r = skipPressure(prev_.r, p.r)]
          ELSE LET t == [s EXCEPT !.length = length,
                                  !.points = Append(s.points,
                                     Point(p, p.r, norm(sub(prev, p)), d, length))]
               IN IF skip_sections THEN t ELSE updateSections(t)
  ELSE [s EXCEPT !.points = <<Point(p, p.r, Vec(I(1), I(1)), I(0), I(0))>>]

\* raw.forEach(p => this.push(p, true))
RECURSIVE pushAll(_, _, _)
pushAll(s, raw, skip_sections) ==
  IF raw = <<>> THEN s
  ELSE pushAll(push(s, Head(raw), skip_sections), Tail(raw), skip_sections)

\* delete this.pending[from]
Without(f, k) == [j \in DOMAIN f \ {k} |-> f[j]]
\* An assignment that keeps the value a key already has
WithKeep(f, k, v) == [j \in DOMAIN f \cup {k} |-> IF j \in DOMAIN f THEN f[j] ELSE v]
\* this.pending[from] = raw
With(f, k, v) == [j \in DOMAIN f \cup {k} |-> IF j = k THEN v ELSE f[j]]

\* What a call of insert() reports: the stroke afterwards, whether a
\* RangeError was thrown, the number of insert() invocations made and the
\* raw points handed to push(), in order.
Outcome(s, err, calls, pushed) ==
  [s |-> s, err |-> err, calls |-> calls, pushed |-> pushed]

\* if ((raw = this.pending[from])): an array, even an empty one, is truthy
hasPendingNonEmpty(s, from) == from \in DOMAIN s.pending /\ s.pending[from] # <<>>
hasPending(s, from) == from \in DOMAIN s.pending

\* throw new RangeError(...): nothing was written before the throw
conflictAfterWrite(s, from, raw) ==
  Outcome([s EXCEPT !.pending = With(s.pending, from, raw)], TRUE, 1, <<>>)
conflict(s, from, raw) == Outcome(s, TRUE, 1, <<>>)

\* Stroke.insert(from, raw)
RECURSIVE insert(_, _, _)
insert(s, from, raw) ==
  IF from = Len(s.points)
  THEN LET t == pushAll(s, raw, TRUE)
           from2 == Len(t.points)
       IN IF hasPending(t, from2)
          THEN LET r == insert([t EXCEPT !.pending = Without(t.pending, from2)],
                               from2, t.pending[from2])
               IN Outcome(r.s, r.err, r.calls + 1, raw \o r.pushed)
          ELSE Outcome(updateSections(t), FALSE, 1, raw)
  ELSE IF from > Len(s.points)
       THEN Outcome([s EXCEPT !.pending = With(s.pending, from, raw)], FALSE, 1, <<>>)
       ELSE conflict(s, from, raw)

\* The loop of Stroke.create over raw[1..]: acc holds points, prev, length
\* and last_length.
RECURSIVE createLoop(_, _)
createLoop(acc, raw) ==
  IF raw = <<>> THEN acc
  ELSE LET curr == Head(raw)
           d == Hypot(RSub(curr.x, acc.prev.x), RSub(curr.y, acc.prev.y))
           length == RAdd(acc.length, d)
       IN IF RLt(RSub(length, acc.last_length), I(SkipDistance))
          THEN createLoop([acc EXCEPT !.length = length,
                                      !.points[Len(acc.points)].r = curr.r],
                          Tail(raw))
          ELSE createLoop([points |-> Append(acc.points,
                              Point(curr, curr.r, norm(sub(acc.prev, curr)), d, length)),
                           prev |-> curr, length |-> length, last_length |-> length],
                          Tail(raw))

\* new Stroke(points, length): the constructor ends with updateSections().
newStroke(points, length) ==
  updateSections(StrokeOf(points, length, <<0>>, NoPending))

\* Stroke.create(raw)
create(raw) ==
  IF Len(raw) > 0
  THEN LET prev == Head(raw)
           acc == createLoop([points |-> <<Point(prev, prev.r, Vec(I(1), I(1)), I(0), I(0))>>,
                              prev |-> prev, length |-> I(0), last_length |-> I(0)],
                             Tail(raw))
       IN newStroke(acc.points, acc.length)
  ELSE newStroke(<<>>, I(0))

\* get empty() and get dot() of ink.ts (dot is the name of the dot product)
empty(s) == Len(s.points) = 0
oneDot(s) == Len(s.points) = 1

\* Point.toJSON / Stroke.toJSON: one [x, y, r] triple per stored point
toJSON(s) == [i \in 1..Len(s.points) |->
                <<s.points[i].p.x, s.points[i].p.y, s.points[i].r>>]

\* undefined, what a[i] is past the end of the array a: a value of its own
\* that arithmetic and comparisons convert to NaN.
undefined == <<1, 0>>

\* a[i] of an array a, i being 0-based
at(a, i) == IF i < Len(a) THEN a[i + 1] ELSE undefined

\* Stroke.fromJSON on an array of arrays:
\* Stroke.create(json.map(a => ({ x: a[0], y: a[1], r: a[2] })))
fromJSON(json) ==
  create([i \in 1..Len(json) |->
            [x |-> at(json[i], 0), y |-> at(json[i], 1), r |-> at(json[i], 2)]])

\* JSON values: null, an object that is no array, and the arrays
JSONNull == [kind |-> "null"]
JSONObject == [kind |-> "object"]
JSONArray(items) == [kind |-> "array", items |-> items]

\* Stroke.fromJSON(json) on any JSON value: whether it threw the RangeError of
\* "if (!json || !Array.isArray(json))" and, if not, the Stroke it returned.
fromJSONCall(json) ==
  IF json.kind # "array"
  THEN [err |-> TRUE, s |-> create(<<>>)]
  ELSE [err |-> FALSE, s |-> fromJSON(json.items)]

(***************************************************************************)
(* Stroke.outline                                                          *)
(***************************************************************************)
TailDistance == R(4, 10)
PressureChangeSpeed == R(3, 10)
DotSize == R(36, 100)
MinRadius == R(75, 100)
\* Iterations of the three loops over t with step = 1 / 13 in IEEE double
\* arithmetic: the 13th value of t is 0.9999999999999998 and the 27th is
\* 1.9999999999999991, so "t <= 1" and "t < 1" from t = step both run 13
\* times and "t <= 2" from t = 0 runs 27 times.
StartCapSteps == 13
EndCapSteps == 13
\* the dot loop run for t < 2: the steps of two half turns, without the
\* point that closes the circle
DotStepsOpen == 2 * StartCapSteps
DotSteps == 27

\* The value of the stroke width the callers pass.
Sizes == {8, 20}

\* sections.find(end => from < end); 0 stands for undefined (no section
\* index is 0 and greater than from >= 0).
RECURSIVE find(_, _, _)
find(secs, from, i) ==
  IF i > Len(secs) THEN 0
  ELSE IF from < secs[i] THEN secs[i] ELSE find(secs, from, i + 1)

\* An element of the array that points.slice() returns: a reference to the
\* stored Point object (its 1-based index, ref) or, with ref = 0, an object
\* of its own, and the fields of that object.
Elem(ref, val) == [ref |-> ref, val |-> val]

\* this.points.slice(a): the end index left out
sliceOpen(pts, a, b) ==
  LET n == IF Len(pts) > a THEN Len(pts) - a ELSE 0
  IN [i \in 1..n |-> Elem(a + i, pts[a + i])]

\* this.points.slice(a, b): a new array over the same Point objects
slice(pts, a, b) ==
  LET hi == IF b < Len(pts) THEN b ELSE Len(pts)
      n == IF hi > a THEN hi - a ELSE 0
  IN [i \in 1..n |-> Elem(a + i, pts[a + i])]

\* this.r = r; return this
dupInPlace(e, r) == Elem(e.ref, [e.val EXCEPT !.r = r])

\* Point.dup(r): a shallow copy with the radius changed
dup(e, r) == Elem(0, [e.val EXCEPT !.r = r])

\* The stored points once the working array is dropped: what was written
\* through a reference is written to the stored Point.
stored(pts, work) ==
  [k \in 1..Len(pts) |->
     IF \E i \in 1..Len(work) : work[i].ref = k
     THEN work[CHOOSE i \in 1..Len(work) : work[i].ref = k].val
     ELSE pts[k]]

\* A stroke that always ends with an end cap
drawTailNever(work, end, size) == FALSE
\* The tail policy of outline(): thinner last points instead of an end cap.
drawTail(work, end, size) ==
  LET len == Len(work) IN
    /\ end = 0
    /\ len >= 2
    /\ work[len - 1].val.r \in {Half, One}
    /\ RLt(RMul(TailDistance, I(size)), work[len - 1].val.d)

tail(work) ==
  LET len == Len(work)
      p2 == work[len - 1]
  IN [i \in 1..len |->
        IF i = len THEN dup(work[i], R(5, 100))
        ELSE IF i = len - 1 THEN dup(p2, RMax(R(1, 10), RSub(p2.val.r, R(3, 10))))
        ELSE IF i = len - 2 THEN dup(work[i], RMax(R(1, 10), RSub(work[i].val.r, R(1, 10))))
        ELSE work[i]]

\* One round of the loop "Simulate pressure and push left/right points" for
\* the element i (1-based) of the working array; prevPressure is the r of
\* the element before, and points[0].r as it was before the tail policy for
\* the first.
side(work, first, size, i) ==
  LET len == Len(work)
      e == work[i].val
      d == IF i = 1 THEN I(0) ELSE e.d
      v == IF i = 1 /\ i < len THEN work[i + 1].val.v ELSE e.v
      prevPressure == IF i = 1 THEN first ELSE work[i - 1].val.r
      sp == RMin(I(1), RDiv(d, I(size)))
      rp == RMin(I(1), RSub(I(1), sp))
      pressure == RMin(I(1), RAdd(prevPressure,
                     RMul(RSub(rp, prevPressure), RMul(sp, PressureChangeSpeed))))
      nextVector == (IF i < len THEN work[i + 1] ELSE work[i]).val.v
      nextDot == IF i < len THEN dot(v, nextVector) ELSE I(1)
      radius == RMax(RMul(I(size), RMul(R(1, 2), pressure)), MinRadius)
      offset == mul(per(lerp(nextVector, v, nextDot)), radius)
  IN [pl |-> sub(e.p, offset), pr |-> add(e.p, offset), radius |-> radius]

\* rightPoints as it is
ReverseNot(q) == q
\* rightPoints.reverse()
Reverse(q) == [i \in 1..Len(q) |-> q[Len(q) + 1 - i]]

\* Stroke.outline(from, size): the array returned (out) and the stored
\* points when it returns (points).
outline(s, from, size) ==
  LET end == find(s.sections, from, 1)
      a == IF from > 0 THEN from - 1 ELSE from
      b == IF end = 0 THEN Len(s.points) ELSE end
      points0 == slice(s.points, a, b)
      len == Len(points0)
  IN IF len > 1
     THEN LET thin == drawTail(points0, end, size)
              work == IF thin THEN tail(points0) ELSE points0
              sides == [i \in 1..len |-> side(work, points0[1].val.r, size, i)]
              leftPoints == [i \in 1..len |-> sides[i].pl]
              rightPoints == [i \in 1..len |-> sides[i].pr]
              startCap == [k \in 1..StartCapSteps |->
                             rot(rightPoints[1], work[1].val.p, k)]
              lastPoint == work[len].val
              direction == per(neg(lastPoint.v))
              start == proj(lastPoint.p, direction, sides[len].radius)
              endCap == IF thin THEN <<>>
                        ELSE [k \in 1..EndCapSteps |-> rot(start, lastPoint.p, k)]
          IN [out |-> leftPoints \o endCap \o Reverse(rightPoints) \o startCap,
              points |-> stored(s.points, work)]
     ELSE IF len = 1
          THEN LET lastPoint == points0[1].val
                   direction == per(neg(lastPoint.v))
                   start == proj(lastPoint.p, direction,
                                 RMul(RMul(I(size), DotSize), lastPoint.r))
               IN [out |-> [k \in 1..DotSteps |-> rot(start, lastPoint.p, k - 1)],
                   points |-> stored(s.points, points0)]
          ELSE [out |-> <<>>, points |-> stored(s.points, points0)]

(***************************************************************************)
(* The time-aware Stroke of src/src/stroke.ts.  Its raw points are RawPoint *)
(* objects [x, y, p, t] that the caller creates and the Stroke keeps by    *)
(* reference: heap holds the RawPoint objects in the order of their        *)
(* creation, and a reference is an index into heap.  The Vec methods of    *)
(* base.ts used here (subtract, normalize, dot, lerp, multiply, add,       *)
(* negative, project, rotate) compute what sub, norm, dot, lerp, mul, add, *)
(* neg, proj, rot of vec.ts compute and return a new Vec.                  *)
(***************************************************************************)
TSkipDistance == 4
TailInterval == 100
TTailDistance == R(51, 100)
TailPressure == R(72, 100)
TPressureChangeSpeed == R(1, 2)
TDotSize == R(36, 100)
TMinRadius == R(75, 100)
SpreadInterval == 60
SpreadAmount == R(5, 100)

\* RawPoint.of(x, y, pressure, timestamp)
RawPoint_of(x, y, pressure, timestamp) ==
  [x |-> x, y |-> y, p |-> pressure, t |-> timestamp]

\* Point.of(point, vector, distance, length); point is a reference
Point_of(point, vector, distance, length) ==
  [p |-> point, v |-> vector, d |-> distance, l |-> length]

\* new Stroke(points, length), and the RawPoint objects there are
TStroke(points, length, heap) ==
  [points |-> points, length |-> length, segments |-> <<0>>,
   pending |-> NoPending, heap |-> heap]

\* Stroke._updateLength(d)
_updateLength(w, d) == [w EXCEPT !.length = RAdd(w.length, d)]

\* (prev.p as { p: number }).p = pressure, prev.p being the object ref
foldInto(w, ref, pressure) == [w EXCEPT !.heap[ref].p = pressure]

\* Vec.of(0, 0), the vector of the first point
firstVector == Vec(I(0), I(0))

\* Stroke._push(raw); raw is a reference
_push(this, raw) ==
  (CHOOSE result \in {(IF Len(w.points) > 0
    THEN LET prev == Last(w.points)
             d == Hypot(RSub(w.heap[raw].x, w.heap[prev.p].x),
                        RSub(w.heap[raw].y, w.heap[prev.p].y))
             u == _updateLength(w, d)
         IN IF RLt(RSub(u.length, prev.l), I(TSkipDistance))
            THEN foldInto(u, prev.p, RMax(w.heap[prev.p].p, w.heap[raw].p))
            ELSE [u EXCEPT !.points = Append(w.points,
                    Point_of(raw, norm(sub(w.heap[raw], w.heap[prev.p])), d, u.length))]
    ELSE [w EXCEPT !.points = <<Point_of(raw, firstVector, I(0), I(0))>>]) : w \in {this}} : TRUE)

\* for (let p of raw) this._push(p)
RECURSIVE _pushAll(_, _)
_pushAll(w, raw) ==
  IF raw = <<>> THEN w ELSE _pushAll(_push(w, Head(raw)), Tail(raw))

\* The loop of Stroke._updateSegments from the 0-based index i on.
RECURSIVE ScanSegments(_, _, _)
ScanSegments(pts, segs, i) ==
  IF i >= Len(pts) THEN segs
  ELSE IF RLt(dot(pts[i + 1].v, pts[i].v), I(0))
       THEN ScanSegments(pts, Append(segs, i), i + 2)
       ELSE ScanSegments(pts, segs, i + 1)

\* Stroke._updateSegments()
_updateSegments(this) ==
  (CHOOSE result \in {([w EXCEPT !.segments = ScanSegments(w.points, w.segments, Last(w.segments) + 1)]) : w \in {this}} : TRUE)

\* Stroke.of(raw) on the references raw
Stroke_of(heap, raw) == _updateSegments(_pushAll(TStroke(<<>>, I(0), heap), raw))

\* get empty()
Stroke_empty(w) == w.length = I(0)

\* get dot()
Stroke_dot(w) == Len(w.points) = 1

\* Stroke.push(raw)
Stroke_push(w, raw) == _updateSegments(_push(w, raw))

\* Stroke.insert(from, raw): the stroke when the call ends and whether it
\* ended by the RangeError.
RECURSIVE Stroke_insert(_, _, _)
Stroke_insert(w, from, raw) ==
  IF from = Len(w.points)
  THEN (CHOOSE result \in {(LET next == Len(u.points)
         IN IF next \in DOMAIN u.pending
            THEN Stroke_insert([u EXCEPT !.pending = Without(u.pending, next)],
                               next, u.pending[next])
            ELSE [w |-> _updateSegments(u), err |-> FALSE]) : u \in {_pushAll(w, raw)}} : TRUE)
  ELSE IF from > Len(w.points)
       THEN [w |-> [w EXCEPT !.pending = With(w.pending, from, raw)], err |-> FALSE]
       ELSE [w |-> w, err |-> TRUE]

(***************************************************************************)
(* Spring (src/src/spring.ts) and Stroke.outline of stroke.ts              *)
(***************************************************************************)
Spring_initial == R(36, 100)
Spring_timespan == R(16667, 1000000)
Spring_stiffness == I(2)
Spring_damping == R(1, 10)
Spring_precision == R(1, 100)

RAbs(a) == IF RLt(a, I(0)) THEN RSub(I(0), a) ELSE a
\* a >= 0
RNonNeg(a) == ~IsNaN(a) /\ ~RLt(a, I(0))

\* new Spring(value)
Spring_new(value) == [value |-> value, last |-> value, target |-> value]

\* Spring.set(target)
Spring_set(sp, target) == [sp EXCEPT !.target = target]

\* Spring.update(dt): the spring after the call; the call returns its value
Spring_update(sp, dt0) ==
  LET dt == IF IsNaN(dt0) \/ dt0 = I(0) THEN Spring_timespan ELSE dt0 IN
    IF RNonNeg(sp.value) /\ RNonNeg(sp.target) /\ RNonNeg(sp.last)
    THEN LET delta == RSub(sp.target, sp.value)
             velocity == RDiv(RSub(sp.value, sp.last), dt)
             spring == RMul(Spring_stiffness, delta)
             damper == RMul(Spring_damping, velocity)
             acceleration == RSub(spring, damper)
             d == RMul(RAdd(velocity, acceleration), dt)
         IN IF RLt(RAbs(d), Spring_precision) /\ RLt(RAbs(delta), Spring_precision)
            THEN [sp EXCEPT !.last = sp.value, !.value = sp.target]
            ELSE [sp EXCEPT !.last = sp.value, !.value = RAdd(sp.value, d)]
    ELSE sp

\* clamp(value, min, max) of base.ts
clamp(value, min, max) ==
  IF RLt(value, min) THEN min ELSE IF RLt(max, value) THEN max ELSE value

\* A pressure that goes on growing with the time passed
pressureTillNow2Linear(p, t, now) ==
  RMin(RAdd(p, RDiv(RMul(SpreadAmount, RSub(now, t)), I(SpreadInterval))), I(1))
\* pressureTillNow2(p, t, now)
pressureTillNow2(p, t, now) ==
  IF RLt(I(SpreadInterval), RSub(now, t))
  THEN RMin(RAdd(p, SpreadAmount), I(1))
  ELSE RMin(RAdd(p, RDiv(RMul(SpreadAmount, RSub(now, t)), I(SpreadInterval))), I(1))

\* pressureTillNow(p: Point, now), on the RawPoint raw of the point
pressureTillNow(raw, now) == pressureTillNow2(raw.p, raw.t, now)

\* Vec.permutate()
permutate(a) == Vec(RSub(I(0), a.y), a.x)

\* The loop "for (let i = length - 3; i >= 0; i--)" of the tail: the d and
\* the tailIndex it ends with.  ts[k] is the timestamp of points[k - 1].
RECURSIVE TailScan(_, _, _, _, _)
TailScan(pts, ts, i, d, tailIndex) ==
  IF i < 0 THEN [d |-> d, tailIndex |-> tailIndex]
  ELSE LET d1 == RAdd(d, pts[i + 1].d)
           t == RSub(ts[Len(pts) - 1], ts[i + 1])
       IN IF ~RLt(I(0), t) \/ RLt(I(TailInterval), t)
          THEN [d |-> d1, tailIndex |-> tailIndex]
          ELSE TailScan(pts, ts, i - 1, d1, i)

\* The index from which the tail gets thinner.
TailIndex(pts, ts, size) ==
  LET length == Len(pts)
      scan == TailScan(pts, ts, length - 3, pts[length - 1].d, -1)
  IN IF RLt(RMul(TTailDistance, I(size)), scan.d)
     THEN scan.tailIndex + ((length - scan.tailIndex + 2) \div 3)
     ELSE length - 3

\* Iterations of the loops over t with step = 1 / 13 that start at t = 0:
\* "t <= 1" and "t < 1" both run 14 times (the 14th t is 0.9999999999999998)
\* and "t <= 2" runs 27 times.
TStartCapSteps == 14
TEndCapSteps == 14
TDotSteps == 27

\* The loop "Simulate pressure and push points" from the 0-based index i on.
\* c holds what the loop reads only: the points pts of the slice, their
\* RawPoints raws, size, now, drawEndCap and tailIndex; st holds what it
\* writes: prevPressure, prevTimestamp, spring, radius, leftPoints and
\* rightPoints.
RECURSIVE PressureLoop(_, _, _)
PressureLoop(c, state, i) ==
  IF i >= Len(c.pts) THEN state
  ELSE (CHOOSE result \in {(LET length == Len(c.pts)
        p == c.raws[i + 1]
        d == IF i = 0 THEN I(0) ELSE c.pts[i + 1].d
        v == IF i = 0 THEN c.pts[2].v ELSE c.pts[i + 1].v
        sp == RMin(I(1), RDiv(d, I(c.size)))
        rp == RMin(I(1), RSub(I(1), sp))
        pressure0 == RMin(I(1), RAdd(st.prevPressure,
                        RMul(RSub(rp, st.prevPressure), RMul(sp, TPressureChangeSpeed))))
        nextVector == (IF i < length - 1 THEN c.pts[i + 2] ELSE c.pts[i + 1]).v
        nextDot == IF i < length - 1 THEN dot(v, nextVector) ELSE I(1)
        t == RSub(I(1), R(length - i - 1, length - c.tailIndex))
    IN (CHOOSE result \in {(LET pressure1 == spring.value
               pressure == IF ~c.drawEndCap /\ i >= c.tailIndex
                           THEN RMul(pressure1, RSub(I(1), RMul(t, t)))
                           ELSE pressure1
           IN (CHOOSE result \in {((CHOOSE result \in {(PressureLoop(c,
                        [prevPressure |-> p.p, prevTimestamp |-> p.t,
                         spring |-> spring, radius |-> radius,
                         leftPoints |-> Append(st.leftPoints, sub(p, offset)),
                         rightPoints |-> Append(st.rightPoints, add(p, offset))],
                        i + 1)) : offset \in {mul(permutate(lerp(nextVector, v, nextDot)), radius)}} : TRUE)) : radius \in {clamp(RMul(RMul(I(c.size), R(1, 2)),
                              pressureTillNow2(pressure, p.t, c.now)),
                         TMinRadius, R(c.size, 2))}} : TRUE)) : spring \in {Spring_update(Spring_set(st.spring, pressure0),
                          RDiv(RSub(p.t, st.prevTimestamp), I(800)))}} : TRUE)) : st \in {state}} : TRUE)

\* The outline of the slice points0 that has two points or more.
OutlineOfSlice(w, points0, end, size, now, withTail) ==
  LET length == Len(points0)
      raws == [i \in 1..length |-> w.heap[points0[i].p]]
      prevPressure == raws[1].p
      lastPressure == raws[length].p
      thin == /\ withTail
              /\ end = 0
              /\ length >= 2
              /\ \/ prevPressure = Half
                 \/ prevPressure = One
                 \/ RLt(lastPressure, TailPressure)
      ts == [i \in 1..length |-> raws[i].t]
  IN (CHOOSE result \in {((CHOOSE result \in {(LET startCap == [k \in 1..TStartCapSteps |->
                                rot(st.rightPoints[1], Vec(raws[1].x, raws[1].y), k - 1)]
                 lastPoint == points0[length]
                 lastPos == Vec(raws[length].x, raws[length].y)
                 direction == permutate(neg(lastPoint.v))
                 start == proj(lastPos, direction, st.radius)
                 endCap == IF thin THEN <<>>
                           ELSE [k \in 1..TEndCapSteps |-> rot(start, lastPos, k - 1)]
             IN st.leftPoints \o endCap \o Reverse(st.rightPoints) \o startCap) : st \in {PressureLoop(c,
                [prevPressure |-> prevPressure, prevTimestamp |-> raws[1].t,
                 spring |-> Spring_new(RMax(prevPressure, RDiv(TDotSize, I(5)))),
                 radius |-> I(size), leftPoints |-> <<>>, rightPoints |-> <<>>],
                0)}} : TRUE)) : c \in {[pts |-> points0, raws |-> raws, size |-> size, now |-> now,
           drawEndCap |-> ~thin,
           tailIndex |-> IF thin THEN TailIndex(points0, ts, size) ELSE -1]}} : TRUE)

\* Stroke.outline(from, size, now, tail) of stroke.ts; withTail is tail
Stroke_outline(w, from, size, now, withTail) ==
  LET end == find(w.segments, from, 1)
      a == IF from > 0 THEN from - 1 ELSE from
      b == IF end = 0 \/ end > Len(w.points) THEN Len(w.points) ELSE end
  IN (CHOOSE result \in {(IF Len(points0) > 1
       THEN OutlineOfSlice(w, points0, end, size, now, withTail)
       ELSE IF Len(points0) = 1
            THEN LET raw == w.heap[points0[1].p]
                     pos == Vec(raw.x, raw.y)
                     start == proj(pos, Vec(I(1), I(0)),
                                   RMul(RMul(I(size), TDotSize), pressureTillNow(raw, now)))
                 IN [k \in 1..TDotSteps |-> rot(start, pos, k - 1)]
            ELSE <<>>) : points0 \in {IF b > a THEN SubSeq(w.points, a + 1, b) ELSE <<>>}} : TRUE)

\* Stroke.isSpreading(now)
isSpreading(w, now) ==
  /\ Len(w.points) > 0
  /\ RLt(RSub(now, w.heap[Last(w.points).p].t), I(SpreadInterval))

(***************************************************************************)
(* Input (src/unnamed/part_005): the handlers of the pointer events.  An   *)
(* Input is its _map (the pointerId and the position of the event stored   *)
(* for it, in the order of insertion), its _pinch (whether there is one,   *)
(* and the pointerIds of its points), paused and gesture ("true", "false"  *)
(* or "strict").  A handler gives the Input after the call and the events  *)
(* it emitted, in order.                                                   *)
(***************************************************************************)
\* new Input(paused, gesture)
Input_new(paused, gesture) ==
  [map |-> <<>>, pinch |-> [on |-> FALSE, points |-> {}],
   paused |-> paused, gesture |-> gesture]

\* this.emit(name, id); 'pinch' carries no pointerId (0 here)
Emit(name, id) == [name |-> name, id |-> id]

\* this._map.has(id)
Map_has(map, id) == \E k \in DOMAIN map : map[k].id = id

\* this._map.get(id)
Map_get(map, id) == map[CHOOSE k \in DOMAIN map : map[k].id = id]

\* this._map.set(id, ev): a key there is keeps its place
Map_set(map, ev) ==
  IF Map_has(map, ev.id)
  THEN [k \in DOMAIN map |-> IF map[k].id = ev.id THEN ev ELSE map[k]]
  ELSE Append(map, ev)

\* this._map.delete(id)
RECURSIVE Map_delete(_, _)
Map_delete(map, id) ==
  IF map = <<>> THEN <<>>
  ELSE IF Head(map).id = id THEN Tail(map)
       ELSE <<Head(map)>> \o Map_delete(Tail(map), id)

\* this._mapGesture(ev)
_mapGesture(this, ev) ==
  this.gesture = "true" \/ (this.gesture = "strict" /\ ev.pointerType = "touch")

\* this._map.forEach of _onpointerdown on the new Pinch, from the entry k
\* on: 'cancel' for every other stroke, and the 'pinch' of pinch.add(ev2)
RECURSIVE PinchAll(_, _, _)
PinchAll(map, id, k) ==
  IF k > Len(map) THEN <<>>
  ELSE (IF map[k].id # id THEN <<Emit("cancel", map[k].id)>> ELSE <<>>)
         \o <<Emit("pinch", 0)>> \o PinchAll(map, id, k + 1)

\* this._pinch.delete(id); if (this._pinch.empty) this._pinch = null
Pinch_delete(pinch, id) ==
  IF pinch.points \ {id} = {} THEN [on |-> FALSE, points |-> {}]
  ELSE [pinch EXCEPT !.points = pinch.points \ {id}]

\* Input._onpointerdown(ev)
_onpointerdown(this, ev) ==
  IF this.paused THEN [input |-> this, emits |-> <<>>]
  ELSE LET first == IF Map_has(this.map, ev.id) THEN <<Emit("cancel", ev.id)>> ELSE <<>>
           map == Map_set(this.map, ev)
       IN IF _mapGesture(this, ev) /\ Len(map) > 1
          THEN [input |-> [this EXCEPT !.map = map,
                                       !.pinch = [on |-> TRUE,
                                                  points |-> {map[k].id : k \in DOMAIN map}]],
                emits |-> first \o PinchAll(map, ev.id, 1)]
          ELSE [input |-> [this EXCEPT !.map = map],
                emits |-> Append(first, Emit("open", ev.id))]

\* Input._onpointermove(ev); coalesced is the number of events that
\* ev.getCoalescedEvents() returns
_onpointermove(this, ev, coalesced) ==
  IF this.paused \/ ~Map_has(this.map, ev.id) THEN [input |-> this, emits |-> <<>>]
  ELSE IF Map_get(this.map, ev.id).x = ev.x THEN [input |-> this, emits |-> <<>>]
  ELSE IF this.pinch.on
       THEN [input |-> [this EXCEPT !.map = Map_set(this.map, ev),
                                    !.pinch.points = this.pinch.points \cup {ev.id}],
             emits |-> <<Emit("pinch", 0)>>]
       ELSE [input |-> [this EXCEPT !.map = Map_set(this.map, ev)],
             emits |-> [k \in 1..coalesced |-> Emit("update", ev.id)]]

\* Input._onpointerup(ev); predicted is whether getPredictedEvents() of
\* the event stored for the pointer has an event
_onpointerup(this, ev, predicted) ==
  IF this.paused \/ ~Map_has(this.map, ev.id) THEN [input |-> this, emits |-> <<>>]
  ELSE IF this.pinch.on
       THEN [input |-> [this EXCEPT !.map = Map_delete(this.map, ev.id),
                                    !.pinch = Pinch_delete(this.pinch, ev.id)],
             emits |-> <<Emit("pinch", 0)>>]
       ELSE [input |-> [this EXCEPT !.map = Map_delete(this.map, ev.id)],
             emits |-> (IF predicted
                        THEN <<Emit("update", ev.id)>> ELSE <<>>)
                         \o <<Emit("close", ev.id)>>]

\* Input._onpointercancel(ev)
_onpointercancel(this, ev) ==
  IF this.paused THEN [input |-> this, emits |-> <<>>]
  ELSE IF this.pinch.on
       THEN [input |-> [this EXCEPT !.map = Map_delete(this.map, ev.id),
                                    !.pinch = Pinch_delete(this.pinch, ev.id)],
             emits |-> <<Emit("pinch", 0)>>]
       ELSE [input |-> [this EXCEPT !.map = Map_delete(this.map, ev.id)],
             emits |-> <<Emit("cancel", ev.id)>>]

\* A subscriber of 'open', 'update', 'close' and 'cancel' that keeps one
\* stroke per pointerId: the ids whose stroke is open after the events of
\* emits from the k-th on, and the events that came for an id without an
\* open stroke (stray).
RECURSIVE Hear(_, _, _, _)
Hear(open, stray, emits, k) ==
  IF k > Len(emits) THEN [open |-> open, stray |-> stray, log |-> emits]
  ELSE LET e == emits[k] IN
         IF e.name = "open" THEN Hear(open \cup {e.id}, stray, emits, k + 1)
         ELSE IF e.name \in {"update", "close", "cancel"}
              THEN Hear(IF e.name = "update" THEN open ELSE open \ {e.id},
                        IF e.id \in open THEN stray ELSE Append(stray, e),
                        emits, k + 1)
              ELSE Hear(open, stray, emits, k + 1)

(***************************************************************************)
(* State                                                                   *)
(***************************************************************************)
VARIABLES
  points,    \* Stroke.points
  length,    \* Stroke.length
  sections,  \* Stroke.sections
  pending,   \* Stroke.pending
  op,        \* the last call made on the stroke and how it ended
  fed,       \* the raw points handed to create / push so far, in order
  inserts,   \* number of insert() calls made so far
  other,     \* a second Stroke, the replica of another site
  batches,   \* the insert batches the two sites exchange: [from, raw]
  inboxA,    \* indexes of the batches not yet delivered to this Stroke
  inboxB,    \* indexes of the batches not yet delivered to the other one
  out,       \* the array the last call returned if it was outline(), else <<>>
  time,      \* the Stroke of stroke.ts fed with the same samples, and the
             \* RawPoint objects its caller created (time.heap)
  given,     \* the RawPoint objects as they were when the caller created them
  clock,     \* performance.timeOrigin + performance.now(), in milliseconds
  tout,      \* as out, for the Stroke of stroke.ts
  spring,    \* a Spring of spring.ts
  sprung,    \* the value it was created with and the values update() returned
  device,    \* an Input
  heard,     \* what a subscriber of the Input made of the events emitted
  dom        \* the pointers that are down, and the event delivered last

replicaVars == <<other, batches, inboxA, inboxB>>
timeVars == <<time, given, clock, tout>>
deviceVars == <<spring, sprung, device, heard, dom>>
vars == <<points, length, sections, pending, op, fed, inserts,
          other, batches, inboxA, inboxB, out, time, given, clock, tout,
          spring, sprung, device, heard, dom>>

\* No event was delivered yet
NoEvent == [type |-> "none", id |-> 0]

\* A Spring that nothing was done with: new Spring()
IdleSpring ==
  /\ spring = Spring_new(Spring_initial)
  /\ sprung = <<>>

\* An Input that nothing was done with: new Input()
IdleInput ==
  /\ device = Input_new(FALSE, "true")
  /\ heard = Hear({}, <<>>, <<>>, 1)
  /\ dom = [down |-> {}, event |-> NoEvent]

Idle == IdleSpring /\ IdleInput

stroke == StrokeOf(points, length, sections, pending)

Call(name, from, raw, err, calls) ==
  [name |-> name, from |-> from, raw |-> raw, err |-> err, calls |-> calls,
   size |-> 0, now |-> 0, tail |-> FALSE]

\* No Stroke was fed: Stroke.create() and Stroke.of([])
strokeVars == <<points, length, sections, pending, op, fed, inserts, out>>
Blank ==
  /\ points = <<>>
  /\ length = I(0)
  /\ sections = <<0>>
  /\ pending = NoPending
  /\ op = Call("create", 0, <<>>, FALSE, 0)
  /\ fed = <<>>
  /\ inserts = 0
  /\ other = create(<<>>)
  /\ batches = <<>>
  /\ inboxA = {}
  /\ inboxB = {}
  /\ out = <<>>
  /\ time = Stroke_of(<<>>, <<>>)
  /\ given = <<>>
  /\ clock = 0
  /\ tout = <<>>

\* Raw points handed over so far, buffered ones included.
RECURSIVE SumLen(_, _)
SumLen(f, K) ==
  IF K = {} THEN 0
  ELSE LET k == CHOOSE j \in K : TRUE IN Len(f[k]) + SumLen(f, K \ {k})

Given == Len(fed) + SumLen(pending, DOMAIN pending)

\* What is left of the work budget.
Room == MaxWork - Given - inserts

\* The Stroke object takes the fields of the value a call leaves.
Install(after) ==
  \E s \in {after} :
    /\ points' = s.points
    /\ length' = s.length
    /\ sections' = s.sections
    /\ pending' = s.pending

\* let stroke = Stroke.create(raw)
Init ==
  \E raw \in Batches :
    LET s == create(raw) IN
      /\ points = s.points
      /\ length = s.length
      /\ sections = s.sections
      /\ pending = s.pending
      /\ op = Call("create", 0, raw, FALSE, 0)
      /\ fed = raw
      /\ inserts = 0
      /\ other = create(<<>>)
      /\ batches = <<>>
      /\ inboxA = {}
      /\ inboxB = {}
      /\ out = <<>>
      /\ time = Stroke_of(<<>>, <<>>)
      /\ given = <<>>
      /\ clock = 0
      /\ tout = <<>>
      /\ Idle

\* stroke.push(p)
Push(p) ==
  /\ Install(push(stroke, p, FALSE))
  /\ op' = Call("push", Len(points), <<p>>, FALSE, 0)
  /\ fed' = Append(fed, p)
  /\ inserts' = inserts
  /\ out' = <<>>
  /\ UNCHANGED <<replicaVars, timeVars, deviceVars>>

\* stroke.insert(from, raw)
Insert(from, raw) ==
  \E r \in {insert(stroke, from, raw)} :
    /\ Install(r.s)
    /\ op' = Call("insert", from, raw, r.err, r.calls)
    /\ fed' = fed \o r.pushed
    /\ inserts' = inserts + 1
    /\ out' = <<>>
    /\ UNCHANGED <<replicaVars, timeVars, deviceVars>>

Next ==
  \/ \E p \in {q \in RawPoint : Room >= 1} : Push(p)
  \/ \E from \in 0..MaxWork, raw \in {b \in Batches : Len(b) + 1 <= Room} :
       Insert(from, raw)

Spec == Init /\ [][Next]_vars

\* stroke.outline(from, size)
OutlineCall(from, size) ==
  /\ \E o \in {outline(stroke, from, size)} : points' = o.points /\ out' = o.out
  /\ op' = [Call("outline", from, <<>>, FALSE, 0) EXCEPT !.size = size]
  /\ UNCHANGED <<length, sections, pending, fed, inserts>>
  /\ UNCHANGED <<replicaVars, timeVars, deviceVars>>

\* The elements of the arrays handed to fromJSON: the [x, y, r] triples of the
\* raw points, a triple without its last field and an empty array.
JSONElements ==
  {<<p.x, p.y, p.r>> : p \in RawPoint} \cup {<<I(0), I(0)>>, <<>>}

\* The values handed to fromJSON
JSONValues ==
  {JSONNull, JSONObject} \cup {JSONArray(a) : a \in SeqsUpTo(JSONElements, MaxBatch)}

\* stroke = Stroke.fromJSON(json): an error leaves the variable as it was.
FromJSON(json) ==
  \E r \in {fromJSONCall(json)} :
    /\ IF r.err
       THEN UNCHANGED <<points, length, sections, pending, fed>>
       ELSE /\ Install(r.s)
            /\ fed' = [i \in 1..Len(json.items) |->
                         [x |-> at(json.items[i], 0), y |-> at(json.items[i], 1),
                          r |-> at(json.items[i], 2)]]
    /\ op' = [name |-> "fromJSON", json |-> json, err |-> r.err]
    /\ inserts' = inserts
    /\ out' = <<>>
    /\ UNCHANGED <<replicaVars, timeVars, deviceVars>>

\* A stroke that is drawn point by point and restored from JSON values.
NextJSON ==
  \/ \E p \in {q \in RawPoint : Room >= 1} : Push(p)
  \/ \E json \in JSONValues : FromJSON(json)

SpecJSON == Init /\ [][NextJSON]_vars

\* A stroke drawn point by point and outlined in between, as in the README's
\* usage.  outline(from, size) with from beyond points.length works on an
\* empty slice.
NextOutline ==
  \/ \E p \in {q \in RawPoint : Room >= 1} : Push(p)
  \/ \E from \in 0..Len(points), size \in Sizes : OutlineCall(from, size)

SpecOutline == Init /\ [][NextOutline]_vars

(***************************************************************************)
(* The two Strokes (ink.ts and stroke.ts) fed with the same samples: each  *)
(* sample is a raw point {x, y, r} for the one and RawPoint.of(x, y, r, t) *)
(* for the other, t being the time of the event.                           *)
(***************************************************************************)
\* Time that passes between two calls, in milliseconds
Ticks == {40}

\* The caller creates one RawPoint per sample of raw: the samples of a batch
\* are events 10 ms apart, the last one at the time now.
NewRawPoints(raw, now) ==
  [i \in 1..Len(raw) |->
     RawPoint_of(raw[i].x, raw[i].y, raw[i].r, I(now - 10 * (Len(raw) - i)))]

\* The references of the n objects created after the m there were.
Refs(m, n) == [i \in 1..n |-> m + i]

TimeRoom == MaxTimeWork - Given - inserts

\* Stroke.create(raw) and Stroke.of(raw.map(RawPoint.of))
InitTime ==
  \E raw \in Batches :
    LET s == create(raw) IN
      /\ points = s.points
      /\ length = s.length
      /\ sections = s.sections
      /\ pending = s.pending
      /\ op = Call("create", 0, raw, FALSE, 0)
      /\ fed = raw
      /\ inserts = 0
      /\ other = create(<<>>)
      /\ batches = <<>>
      /\ inboxA = {}
      /\ inboxB = {}
      /\ out = <<>>
      /\ clock \in Ticks
      /\ given = NewRawPoints(raw, clock)
      /\ time = Stroke_of(NewRawPoints(raw, clock), Refs(0, Len(raw)))
      /\ tout = <<>>
      /\ Idle

\* push(p) on both, for an event dt after the call before
PushBoth(p, dt) ==
  /\ clock + dt <= MaxClock
  /\ clock' = clock + dt
  /\ Install(push(stroke, p, FALSE))
  /\ op' = Call("push", Len(points), <<p>>, FALSE, 0)
  /\ fed' = Append(fed, p)
  /\ inserts' = inserts
  /\ given' = given \o NewRawPoints(<<p>>, clock')
  /\ time' = Stroke_push([time EXCEPT !.heap = time.heap \o NewRawPoints(<<p>>, clock')],
                         Len(time.heap) + 1)
  /\ out' = <<>>
  /\ tout' = <<>>
  /\ UNCHANGED <<replicaVars, deviceVars>>

\* insert(from, raw) on both, for events that end dt after the call before
InsertBoth(from, raw, dt) ==
  \E r \in {insert(stroke, from, raw)},
     u \in {Stroke_insert([time EXCEPT !.heap = time.heap \o NewRawPoints(raw, clock + dt)],
                          from, Refs(Len(time.heap), Len(raw)))} :
    /\ clock + dt <= MaxClock
    /\ clock' = clock + dt
    /\ Install(r.s)
    /\ op' = Call("insert", from, raw, r.err, r.calls)
    /\ fed' = fed \o r.pushed
    /\ inserts' = inserts + 1
    /\ given' = given \o NewRawPoints(raw, clock')
    /\ time' = u.w
    /\ out' = <<>>
    /\ tout' = <<>>
    /\ UNCHANGED <<replicaVars, deviceVars>>

\* outline(from, size) on both; the Stroke of stroke.ts takes now from the
\* clock and is given tail.
OutlineBoth(from, size, withTail) ==
  /\ \E o \in {outline(stroke, from, size)} : points' = o.points /\ out' = o.out
  /\ tout' = Stroke_outline(time, from, size, I(clock), withTail)
  /\ op' = [Call("outline", from, <<>>, FALSE, 0)
              EXCEPT !.size = size, !.now = clock, !.tail = withTail]
  /\ UNCHANGED <<length, sections, pending, fed, inserts, time, given, clock>>
  /\ UNCHANGED <<replicaVars, deviceVars>>

\* Time passes.
Tick(dt) ==
  /\ clock + dt <= MaxClock
  /\ clock' = clock + dt
  /\ UNCHANGED <<points, length, sections, pending, op, fed, inserts,
                 replicaVars, out, time, given, tout, deviceVars>>

NextTime ==
  \/ \E p \in {q \in RawPoint : TimeRoom >= 1}, dt \in Ticks : PushBoth(p, dt)
  \/ \E from \in 0..MaxTimeWork, raw \in {b \in Batches : Len(b) + 1 <= TimeRoom},
        dt \in Ticks :
       InsertBoth(from, raw, dt)
  \/ \E from \in {sections[i] : i \in DOMAIN sections}, size \in Sizes,
        withTail \in BOOLEAN :
       OutlineBoth(from, size, withTail)
  \/ \E dt \in Ticks : Tick(dt)

SpecTime == InitTime /\ [][NextTime]_vars

(***************************************************************************)
(* Two replicas of one stroke fed by insert(), as in the README's          *)
(* "Possible CRDT Implementation": the raw points of the stroke travel in  *)
(* consecutive batches, each keyed by the index of the retained point it   *)
(* starts at, and every site applies each batch once, in its own order.    *)
(***************************************************************************)
Batch(from, raw) == [from |-> from, raw |-> raw]

\* The source's raw points, in order.
RECURSIVE Source(_, _)
Source(bs, n) == IF n = 0 THEN <<>> ELSE Source(bs, n - 1) \o bs[n].raw

\* The sending site feeds its points in order, so the next batch starts at
\* the number of points it retains so far.
Retained(raw) == Len(pushAll(create(<<>>), raw, TRUE).points)

InitReplica ==
  \E b1, b2, b3 \in Batches \ {<<>>} :
    /\ Len(b1) + Len(b2) + Len(b3) <= MaxSource
    /\ batches = <<Batch(0, b1), Batch(Retained(b1), b2),
                   Batch(Retained(b1 \o b2), b3)>>
    /\ inboxA = 1..3
    /\ inboxB = 1..3
    /\ points = create(<<>>).points
    /\ length = create(<<>>).length
    /\ sections = create(<<>>).sections
    /\ pending = create(<<>>).pending
    /\ other = create(<<>>)
    /\ op = Call("create", 0, <<>>, FALSE, 0)
    /\ fed = <<>>
    /\ inserts = 0
    /\ out = <<>>
    /\ time = Stroke_of(<<>>, <<>>)
    /\ given = <<>>
    /\ clock = 0
    /\ tout = <<>>
    /\ Idle

\* stroke.insert(from, raw) on this site for the batch i
DeliverA(i) ==
  LET r == insert(stroke, batches[i].from, batches[i].raw) IN
    /\ Install(r.s)
    /\ op' = Call("insert", batches[i].from, batches[i].raw, r.err, r.calls)
    /\ fed' = fed \o r.pushed
    /\ inserts' = inserts + 1
    /\ inboxA' = inboxA \ {i}
    /\ UNCHANGED <<other, batches, inboxB, out, timeVars, deviceVars>>

\* other.insert(from, raw) on the other site for the batch i
DeliverB(i) ==
  /\ other' = insert(other, batches[i].from, batches[i].raw).s
  /\ inboxB' = inboxB \ {i}
  /\ UNCHANGED <<points, length, sections, pending, op, fed, inserts,
                 batches, inboxA, out, timeVars, deviceVars>>

NextReplica ==
  \/ \E i \in inboxA : DeliverA(i)
  \/ \E i \in inboxB : DeliverB(i)

SpecReplica == InitReplica /\ [][NextReplica]_vars

(***************************************************************************)
(* A pen that moves along a line: the two Strokes are fed samples of the x *)
(* axis, each one at or a little after the place of the sample the caller  *)
(* made before it, and the Stroke of ink.ts is outlined in between.        *)
(***************************************************************************)
\* The samples: every 10 units with pressure 1.0, and one 3 units after the
\* first with pressure 0.5.
LinePoint == {Raw(10 * k, 0, One) : k \in 0..4} \cup {Raw(3, 0, Half)}

\* Where the pen is: the place of the last sample the caller made
LineFront == IF given = <<>> THEN I(0) ELSE Last(given).x

\* The farthest the pen moves between two samples
LineStep == 10

\* x is at or after the place from and at most LineStep away from it
LineNext(from, x) == ~RLt(x, from) /\ ~RLt(RAdd(from, I(LineStep)), x)

\* The batches of samples the pen can make next
LineBatches ==
  {b \in SeqsUpTo(LinePoint, MaxBatch) :
     /\ \A i \in 1..Len(b) - 1 : LineNext(b[i].x, b[i + 1].x)
     /\ b # <<>> => LineNext(LineFront, b[1].x)}

\* Stroke.create() and Stroke.of()
InitLine ==
  /\ points = create(<<>>).points
  /\ length = create(<<>>).length
  /\ sections = create(<<>>).sections
  /\ pending = create(<<>>).pending
  /\ op = Call("create", 0, <<>>, FALSE, 0)
  /\ fed = <<>>
  /\ inserts = 0
  /\ other = create(<<>>)
  /\ batches = <<>>
  /\ inboxA = {}
  /\ inboxB = {}
  /\ out = <<>>
  /\ clock = 0
  /\ given = <<>>
  /\ time = Stroke_of(<<>>, <<>>)
  /\ tout = <<>>
  /\ Idle

\* The caller creates one RawPoint per sample of raw; the pen reports a
\* sample every LineInterval milliseconds.
LineInterval == 40
LineRawPoints(raw) ==
  [i \in 1..Len(raw) |->
     RawPoint_of(raw[i].x, raw[i].y, raw[i].r, I(LineInterval * (Len(given) + i)))]

\* push(p) on both Strokes
LinePush(p) ==
  /\ Install(push(stroke, p, FALSE))
  /\ op' = Call("push", Len(points), <<p>>, FALSE, 0)
  /\ fed' = Append(fed, p)
  /\ inserts' = inserts
  /\ given' = given \o LineRawPoints(<<p>>)
  /\ clock' = LineInterval * Len(given')
  /\ time' = Stroke_push([time EXCEPT !.heap = time.heap \o LineRawPoints(<<p>>)],
                         Len(time.heap) + 1)
  /\ out' = <<>>
  /\ tout' = <<>>
  /\ UNCHANGED <<replicaVars, deviceVars>>

\* insert(from, raw) on both Strokes
LineInsert(from, raw) ==
  \E r \in {insert(stroke, from, raw)},
     u \in {Stroke_insert([time EXCEPT !.heap = time.heap \o LineRawPoints(raw)],
                          from, Refs(Len(time.heap), Len(raw)))} :
    /\ Install(r.s)
    /\ op' = Call("insert", from, raw, r.err, r.calls)
    /\ fed' = fed \o r.pushed
    /\ inserts' = inserts + 1
    /\ given' = given \o LineRawPoints(raw)
    /\ clock' = LineInterval * Len(given')
    /\ time' = u.w
    /\ out' = <<>>
    /\ tout' = <<>>
    /\ UNCHANGED <<replicaVars, deviceVars>>

NextLine ==
  \/ \E p \in {q \in LinePoint : Room >= 1 /\ LineNext(LineFront, q.x)} : LinePush(p)
  \/ \E from \in Len(points)..(Len(points) + 1),
        raw \in {b \in LineBatches : b # <<>> /\ Len(b) + 1 <= Room} :
       LineInsert(from, raw)
  \/ \E from \in {sections[i] : i \in DOMAIN sections}, size \in Sizes :
       OutlineCall(from, size)

SpecLine == InitLine /\ [][NextLine]_vars

(***************************************************************************)
(* A pen that turns: a stroke created from samples at the corners of a     *)
(* triangle with one obtuse angle, drawn further point by point and        *)
(* outlined with a hairline and a wider size.                              *)
(***************************************************************************)
\* (0,0)-(4,0) is 4, (4,0)-(9,12) is 13 and (0,0)-(9,12) is 15 long; the way
\* (0,0), (4,0), (9,12) turns by less than a quarter turn at (4,0).
TurnPoint == {Raw(0, 0, One), Raw(4, 0, One), Raw(9, 12, One)}

TurnSizes == {1, 8}

\* let stroke = Stroke.create(raw)
InitTurn ==
  \E raw \in SeqsUpTo(TurnPoint, MaxTurn) :
    LET s == create(raw) IN
      /\ points = s.points
      /\ length = s.length
      /\ sections = s.sections
      /\ pending = s.pending
      /\ op = Call("create", 0, raw, FALSE, 0)
      /\ fed = raw
      /\ inserts = 0
      /\ other = create(<<>>)
      /\ batches = <<>>
      /\ inboxA = {}
      /\ inboxB = {}
      /\ out = <<>>
      /\ time = Stroke_of(<<>>, <<>>)
      /\ given = <<>>
      /\ clock = 0
      /\ tout = <<>>
      /\ Idle

NextTurn ==
  \/ \E p \in {q \in TurnPoint : Len(fed) <= MaxTurn} : Push(p)
  \/ \E from \in {sections[i] : i \in DOMAIN sections}, size \in TurnSizes :
       OutlineCall(from, size)

SpecTurn == InitTurn /\ [][NextTurn]_vars

(***************************************************************************)
(* The page of main.ts: the points are made by RawPoint.fromEvent, whose   *)
(* timestamp is performance.timeOrigin + event.timeStamp, and render()     *)
(* outlines every segment with now = performance.now(), the time since     *)
(* performance.timeOrigin.  clock is performance.timeOrigin +              *)
(* performance.now(); the origin of a browser is the time of day the page  *)
(* was opened at, here a time short before the first event.                *)
(***************************************************************************)
\* performance.timeOrigin, in milliseconds
TimeOrigin == 30

\* let now = performance.now()
RenderNow == clock - TimeOrigin

\* render(): stroke.outline(index, size, now, tail) for a segment of the
\* Stroke, and the same section of the Stroke of ink.ts
Render(from, size, withTail) ==
  /\ \E o \in {outline(stroke, from, size)} : points' = o.points /\ out' = o.out
  /\ tout' = Stroke_outline(time, from, size, I(RenderNow), withTail)
  /\ op' = [Call("outline", from, <<>>, FALSE, 0)
              EXCEPT !.size = size, !.now = RenderNow, !.tail = withTail]
  /\ UNCHANGED <<length, sections, pending, fed, inserts, time, given, clock>>
  /\ UNCHANGED <<replicaVars, deviceVars>>

NextRender ==
  \/ \E p \in {q \in RawPoint : TimeRoom >= 1}, dt \in Ticks : PushBoth(p, dt)
  \/ \E from \in {sections[i] : i \in DOMAIN sections}, size \in Sizes,
        withTail \in BOOLEAN :
       Render(from, size, withTail)
  \/ \E dt \in Ticks : Tick(dt)

SpecRender == InitTime /\ [][NextRender]_vars

(***************************************************************************)
(* A Spring alone: created with a value, given a target once and updated,  *)
(* as outline() of stroke.ts does for the points of a slice whose pressure *)
(* no longer changes.                                                      *)
(***************************************************************************)
\* Values and targets of the Spring
SpringValues == {I(0), R(1, 200), R(1, 4), R(1, 2), I(1)}

\* The dt of update(dt): (p.t - prevTimestamp) / 800 of points that are
\* 200 and 400 ms apart
SpringSteps == {R(1, 4), R(1, 2)}

\* new Spring(value).set(target)
InitSpring ==
  \E v0 \in SpringValues, target \in SpringValues :
    /\ Blank
    /\ IdleInput
    /\ spring = Spring_set(Spring_new(v0), target)
    /\ sprung = <<v0>>

\* spring.update(dt)
SpringUpdate(dt) ==
  /\ Len(sprung) <= MaxUpdates
  /\ spring' = Spring_update(spring, dt)
  /\ sprung' = Append(sprung, spring'.value)
  /\ UNCHANGED <<strokeVars, replicaVars, timeVars, device, heard, dom>>

NextSpring == \E dt \in SpringSteps : SpringUpdate(dt)

SpecSpring == InitSpring /\ [][NextSpring]_vars

(***************************************************************************)
(* An Input and the browser that delivers the pointer events of two        *)
(* fingers and a pen to its handlers: pointerdown for a pointer that is not *)
(* down, pointerup and pointercancel for one that is, pointermove for any, *)
(* and the calls of pause() and resume() in between.                       *)
(***************************************************************************)
Pointers == 1..3

\* ev.pointerType of the pointers
pointerType(id) == IF id = 3 THEN "pen" ELSE "touch"

\* The PointerEvents of the pointer id, and where it is (clientX)
PointerEvents(id) ==
  {[id |-> id, pointerType |-> pointerType(id), x |-> x] : x \in 0..1}

\* new Input(paused, gesture)
InitInput ==
  \E paused \in BOOLEAN, gesture \in {"true", "false", "strict"} :
    /\ Blank
    /\ IdleSpring
    /\ device = Input_new(paused, gesture)
    /\ heard = Hear({}, <<>>, <<>>, 1)
    /\ dom = [down |-> {}, event |-> NoEvent]

\* The handler of the event of the given type returned r, the pointers in
\* down being down after the event
Deliver(type, id, r, down) ==
  /\ device' = r.input
  /\ heard' = Hear(heard.open, <<>>, r.emits, 1)
  /\ dom' = [down |-> down, event |-> [type |-> type, id |-> id]]
  /\ UNCHANGED <<strokeVars, replicaVars, timeVars, spring, sprung>>

PointerDown(ev) ==
  /\ ev.id \notin dom.down
  /\ Deliver("pointerdown", ev.id, _onpointerdown(device, ev), dom.down \cup {ev.id})

PointerMove(ev, coalesced) ==
  Deliver("pointermove", ev.id, _onpointermove(device, ev, coalesced), dom.down)

PointerUp(ev, predicted) ==
  /\ ev.id \in dom.down
  /\ Deliver("pointerup", ev.id, _onpointerup(device, ev, predicted), dom.down \ {ev.id})

PointerCancel(ev) ==
  /\ ev.id \in dom.down
  /\ Deliver("pointercancel", ev.id, _onpointercancel(device, ev), dom.down \ {ev.id})

\* Input.pause()
Pause ==
  Deliver("pause", 0, [input |-> [device EXCEPT !.paused = TRUE], emits |-> <<>>], dom.down)

\* Input.resume()
Resume ==
  Deliver("resume", 0, [input |-> [device EXCEPT !.paused = FALSE], emits |-> <<>>], dom.down)

NextInput ==
  \/ \E id \in Pointers : \E ev \in PointerEvents(id) : PointerDown(ev)
  \/ \E id \in Pointers : \E ev \in PointerEvents(id), coalesced \in 1..2 :
       PointerMove(ev, coalesced)
  \/ \E id \in Pointers : \E ev \in PointerEvents(id), predicted \in BOOLEAN :
       PointerUp(ev, predicted)
  \/ \E id \in Pointers : \E ev \in PointerEvents(id) : PointerCancel(ev)
  \/ Pause
  \/ Resume

SpecInput == InitInput /\ [][NextInput]_vars

(***************************************************************************)
(* Properties of the sections, the pending buffer and insert()             *)
(***************************************************************************)
\* C1: after any sequence of create, push and insert calls, sections is
\* non-empty, starts with 0 and is strictly increasing.
C1_SectionsIncreasing ==
  /\ Len(sections) >= 1
  /\ sections[1] = 0
  /\ \A i \in 1..(Len(sections) - 1) : sections[i] < sections[i + 1]

\* Three boundaries, the last two found by separate calls.
C1_Witness ==
  /\ Len(sections) >= 3
  /\ op.name \in {"push", "insert"}

\* C3: after every push or insert call returns, no batch remains in pending
\* whose start index is less than or equal to points.length.
C3_NoReachedPending ==
  (op.name \in {"push", "insert"} /\ ~op.err) =>
    \A k \in DOMAIN pending : k > Len(points)

\* C4: insert(from, raw) with from < points.length raises the RangeError
\* and leaves points, length, sections and pending as they were.
C4_ConflictRejected ==
  [][(op'.name = "insert" /\ op'.from < Len(points)) =>
       (op'.err /\ UNCHANGED <<points, length, sections, pending>>)]_vars

\* A conflicting insert was rejected while a batch was buffered.
C4_Witness ==
  /\ op.name = "insert"
  /\ op.err
  /\ Len(points) >= 2
  /\ DOMAIN pending # {}

\* The batches buffered under the keys K, in increasing key order.
RECURSIVE Flushed(_, _)
Flushed(f, K) ==
  IF K = {} THEN <<>>
  ELSE LET k == CHOOSE j \in K : \A i \in K : j <= i
       IN f[k] \o Flushed(f, K \ {k})

\* C5: insert(from, raw) with from == points.length terminates (it makes one
\* invocation more than the batches it removes from pending), and when it
\* returns it has pushed raw and then every buffered batch whose start index
\* equals the point count reached so far, empty batches included: no batch
\* is left at the final point count, and the other batches are untouched.
C5_FlushCascades ==
  [][(op'.name = "insert" /\ op'.from = Len(points)) =>
       LET gone == DOMAIN pending \ DOMAIN pending'
           input == op'.raw \o Flushed(pending, gone)
           t == pushAll(stroke, input, TRUE)
       IN /\ ~op'.err
          /\ DOMAIN pending' \subseteq DOMAIN pending
          /\ \A k \in DOMAIN pending' : pending'[k] = pending[k]
          /\ \A k \in gone : Len(points) <= k /\ k <= Len(points')
          /\ Len(points') \notin DOMAIN pending'
          /\ op'.calls = 1 + Cardinality(gone)
          /\ fed' = fed \o input
          /\ points' = t.points
          /\ length' = t.length]_vars

\* One call flushed two buffered batches, one of them empty.
C5_Witness ==
  /\ op.name = "insert"
  /\ op.calls = 3
  /\ Len(fed) = 2
  /\ Len(op.raw) = 1

Dist(a, b) == Hypot(RSub(a.x, b.x), RSub(a.y, b.y))

\* C7: feeding two raw points a and b closer than SkipDistance (by push, by
\* insert or as the initial batch of create) leaves exactly one retained
\* point, at a, whose pressure is max(a.r, b.r).
C7_SkipKeepsMaxPressure ==
  (Len(fed) = 2 /\ RLt(Dist(fed[1], fed[2]), I(SkipDistance))) =>
    /\ Len(points) = 1
    /\ points[1].p = Vec(fed[1].x, fed[1].y)
    /\ points[1].r = RMax(fed[1].r, fed[2].r)

\* C8: fromJSON(toJSON(s)).toJSON() equals s.toJSON() for every reachable s.
C8_RoundTrip ==
  toJSON(fromJSON(toJSON(stroke))) = toJSON(stroke)

(***************************************************************************)
(* Out-of-order delivery                                                   *)
(***************************************************************************)
\* Every batch retains a point of its own, so no two batches share a start
\* index and no batch is delivered under an index already taken.
DistinctKeys ==
  /\ batches # <<>>
  /\ \A i, j \in 1..Len(batches) : i < j => batches[i].from < batches[j].from
  /\ Retained(Source(batches, Len(batches))) > batches[Len(batches)].from

\* C2: when every batch of the source has been delivered through insert, in
\* any order, and nothing is left in pending, the stroke has the point count
\* and the sections that pushing the source's raw points one at a time
\* gives.
C2_InsertEqualsPush ==
  (DistinctKeys /\ inboxA = {} /\ pending = NoPending) =>
    LET t == pushAll(create(<<>>), Source(batches, Len(batches)), FALSE)
    IN /\ Len(points) = Len(t.points)
       /\ sections = t.sections

\* C6: two replicas that have received the same batches, each in its own
\* order, are in the same state and hold nothing in pending.
C6_ReplicasConverge ==
  (DistinctKeys /\ inboxA = {} /\ inboxB = {}) =>
    /\ other = stroke
    /\ pending = NoPending

C10_OutlineReadOnly ==
  [][op'.name = "outline" =>
       UNCHANGED <<points, length, sections, pending>>]_vars

\* outline() drew the thinner tail of a stroke of three points or more.
C10_Witness ==
  /\ op.name = "outline"
  /\ Len(points) >= 3
  /\ LET end == find(sections, op.from, 1)
         a == IF op.from > 0 THEN op.from - 1 ELSE op.from
         work == slice(points, a, Len(points))
     IN /\ Len(work) >= 3
        /\ drawTail(work, end, op.size)

(***************************************************************************)
(* length and the stored points                                            *)
(***************************************************************************)
\* Sum of the distances between consecutive points of pts.
RECURSIVE PathLength(_)
PathLength(pts) ==
  IF Len(pts) < 2 THEN I(0)
  ELSE RAdd(PathLength(SubSeq(pts, 1, Len(pts) - 1)),
            Dist(pts[Len(pts) - 1].p, pts[Len(pts)].p))

\* C12: a stroke that is what pushing the raw points fed so far one at a
\* time gives has a length equal to the sum of the distances between its
\* consecutive retained points.
C12_LengthOfRetained ==
  (pending = NoPending /\ stroke = pushAll(create(<<>>), fed, FALSE)) =>
    length = PathLength(points)

\* C13: on a non-empty stroke, length is the running length l of the last
\* stored point.
C13_LengthIsLastRunningLength ==
  Len(points) > 0 => length = Last(points).l

\* C14: length after a push or an insert is greater than or equal to length
\* before it.
C14_LengthNeverDecreases ==
  [][op'.name \in {"push", "insert"} => ~RLt(length', length)]_vars

\* An insert was only buffered, on a stroke whose last sample was skipped.
C14_Witness ==
  /\ op.name = "insert"
  /\ op.from > Len(points)
  /\ op.from \in DOMAIN pending
  /\ Len(points) > 0
  /\ RLt(Last(points).l, length)

\* C16: push and insert keep every stored point where it is, with its p, v,
\* d and l; only the r of the point that was last before the call may
\* change, and it does not decrease.
C16_PointsGrowOnly ==
  [][op'.name \in {"push", "insert"} =>
       /\ Len(points') >= Len(points)
       /\ \A i \in 1..Len(points) :
            /\ points'[i].p = points[i].p
            /\ points'[i].v = points[i].v
            /\ points'[i].d = points[i].d
            /\ points'[i].l = points[i].l
            /\ ~RLt(points'[i].r, points[i].r)
            /\ i < Len(points) => points'[i].r = points[i].r]_vars

\* A skipped sample of pressure 1 raised the pressure of the last point,
\* which was stored with 0.5 (the raw point at (3, 0)).
C16_Witness ==
  /\ op.name = "push"
  /\ Len(points) >= 2
  /\ op.raw[1].r = One
  /\ Last(points).p = Vec(I(3), I(0))
  /\ Last(points).p # Vec(op.raw[1].x, op.raw[1].y)
  /\ Last(points).r = One

\* C18: every stored point after the first is at least SkipDistance away
\* from the stored point before it.
C18_MinimumSpacing ==
  \A i \in 2..Len(points) :
    /\ ~RLt(points[i].d, I(SkipDistance))
    /\ ~RLt(Dist(points[i - 1].p, points[i].p), I(SkipDistance))

\* C11 as stated: a second outline(from, size) right after the first, with
\* no push or insert in between, returns the same points; the Stroke of
\* stroke.ts takes the default now, the clock at the second call.
C11_OutlineIdempotent ==
  op.name = "outline" =>
    /\ outline(stroke, op.from, op.size).out = out
    /\ Stroke_outline(time, op.from, op.size, I(clock), op.tail) = tout

\* C11: a second outline(from, size) right after the first returns the same
\* points, the Stroke of stroke.ts being given the now and the tail of the
\* first call.
C11_OutlineRepeatable ==
  op.name = "outline" =>
    /\ outline(stroke, op.from, op.size).out = out
    /\ Stroke_outline(time, op.from, op.size, I(op.now), op.tail) = tout

\* Time has passed since an outline call that drew the last two points with
\* the thinner tail and no end cap, on both strokes.
C11_Witness ==
  /\ op.name = "outline"
  /\ clock > op.now
  /\ op.tail
  /\ op.from > 0
  /\ Len(out) = 4 + StartCapSteps
  /\ Len(tout) = 4 + TStartCapSteps

\* C15: on both Strokes, empty is true exactly when there are no points and
\* dot is true exactly when there is one point.
C15_EmptyAndDot ==
  /\ empty(stroke) <=> Len(points) = 0
  /\ oneDot(stroke) <=> Len(points) = 1
  /\ Stroke_empty(time) <=> Len(time.points) = 0
  /\ Stroke_dot(time) <=> Len(time.points) = 1

\* C17: every RawPoint object the caller handed over still has the fields
\* the caller gave it.
C17_RawPointsUntouched == time.heap = given

\* C19: the direction of every stored point is a finite vector other than
\* (0, 0), and no point after the first is at distance zero from the point
\* before it, on both Strokes.
C19_DirectionsNonZero ==
  /\ \A i \in 1..Len(points) :
       /\ ~IsNaN(points[i].v.x)
       /\ ~IsNaN(points[i].v.y)
       /\ points[i].v # Vec(I(0), I(0))
       /\ i > 1 => points[i].d # I(0)
  /\ \A i \in 1..Len(time.points) :
       /\ ~IsNaN(time.points[i].v.x)
       /\ ~IsNaN(time.points[i].v.y)
       /\ time.points[i].v # Vec(I(0), I(0))
       /\ i > 1 => time.points[i].d # I(0)

\* A JSON value that is no array, or an array with an element that is not
\* an [x, y, r] triple.
Malformed(json) ==
  \/ json.kind # "array"
  \/ \E i \in 1..Len(json.items) : Len(json.items[i]) # 3

\* C20: fromJSON on a malformed value raises an error.
C20_FromJSONFailsFast ==
  (op.name = "fromJSON" /\ Malformed(op.json)) => op.err

(***************************************************************************)
(* Buffered inserts                                                        *)
(***************************************************************************)
\* C21: insert(from, raw) with from > points.length raises no error, leaves
\* points, length and sections (segments) as they were and leaves pending as
\* it was but for the key from, which holds raw afterwards, on both Strokes.
C21_BufferOnly ==
  [][(op'.name = "insert" /\ inserts' = inserts + 1) =>
       /\ op'.from > Len(points) =>
            /\ ~op'.err
            /\ UNCHANGED <<points, length, sections>>
            /\ DOMAIN pending' = DOMAIN pending \cup {op'.from}
            /\ pending'[op'.from] = op'.raw
            /\ \A k \in DOMAIN pending \ {op'.from} : pending'[k] = pending[k]
       /\ op'.from > Len(time.points) =>
            /\ time'.points = time.points
            /\ time'.length = time.length
            /\ time'.segments = time.segments
            /\ DOMAIN time'.pending = DOMAIN time.pending \cup {op'.from}
            /\ time'.pending[op'.from] = Refs(Len(time.heap), Len(op'.raw))
            /\ \A k \in DOMAIN time.pending \ {op'.from} :
                 time'.pending[k] = time.pending[k]]_vars

\* An empty batch took the place of a batch of one raw point that was
\* pending at the same index of a stroke without points: the caller created
\* one RawPoint, and no raw point is stored or pending.
C21_Witness ==
  /\ op.name = "insert"
  /\ op.from > Len(points)
  /\ op.raw = <<>>
  /\ inserts = 2
  /\ points = <<>>
  /\ time.points = <<>>
  /\ Len(given) = 1
  /\ DOMAIN pending = {op.from}
  /\ pending[op.from] = <<>>
  /\ DOMAIN time.pending = {op.from}
  /\ time.pending[op.from] = <<>>

(***************************************************************************)
(* The outline of a dot and of a straight stroke                           *)
(***************************************************************************)
\* C22 as stated: outline(0, size) returns 26 points on a one-point stroke
\* and none on an empty stroke, on both Strokes.
C22_DotHas26Points ==
  (op.name = "outline" /\ op.from = 0) =>
    /\ Len(points) = 1 => Len(out) = 26
    /\ Len(points) = 0 => out = <<>>
    /\ Len(time.points) = 1 => Len(tout) = 26
    /\ Len(time.points) = 0 => tout = <<>>

\* C22: outline(0, size) returns none on an empty stroke and 27 points on a
\* one-point stroke: a first point and its rotations about the stored point
\* by 1 to 26 steps of PI / 13, PI being a little more than a half turn, so
\* that the last one closes the circle; on both Strokes.
C22_DotHas27Points ==
  (op.name = "outline" /\ op.from = 0) =>
    /\ Len(points) = 1 =>
         /\ Len(out) = 27
         /\ \A k \in 1..26 :
              out[k + 1] = [rot |-> out[1], about |-> points[1].p, turns |-> k]
    /\ Len(points) = 0 => out = <<>>
    /\ Len(time.points) = 1 =>
         /\ Len(tout) = 27
         /\ \A k \in 1..26 :
              tout[k + 1] = [rot |-> tout[1],
                             about |-> Vec(time.heap[time.points[1].p].x,
                                           time.heap[time.points[1].p].y),
                             turns |-> k]
    /\ Len(time.points) = 0 => tout = <<>>

\* outline(0, size) was called on a stroke of one point that a skipped
\* sample was folded into.
C22_Witness ==
  /\ op.name = "outline"
  /\ op.from = 0
  /\ Len(points) = 1
  /\ Len(time.points) = 1
  /\ Len(fed) = 2
  /\ Len(out) > 0
  /\ Len(tout) > 0

\* Five points of a line 10 units apart, with pressure 1.0, were pushed and
\* outline(0, 20) was called.
FiveColinear ==
  /\ fed = [k \in 1..5 |-> Raw(10 * (k - 1), 0, One)]
  /\ Len(points) = 5
  /\ pending = NoPending
  /\ inserts = 0
  /\ op.name = "outline"
  /\ op.from = 0
  /\ op.size = 20

\* C23 as stated: sections is [0] and the outline is a left chain of 5
\* points, an end cap, a right chain of 5 points and a start cap, every
\* chain point 10 units from its stroke point.
C23_RectangularRing ==
  FiveColinear =>
    /\ sections = <<0>>
    /\ Len(out) = 5 + EndCapSteps + 5 + StartCapSteps
    /\ \A i \in 1..5 :
         /\ Dist(out[i], points[i].p) = I(10)
         /\ Dist(out[5 + EndCapSteps + i], points[6 - i].p) = I(10)

\* The distances of the chain points from the five stroke points
FiveRadii == <<I(10), R(37, 4), R(37, 4), R(42, 5), R(67, 10)>>

\* C23: sections is [0] and the outline is a left chain of 5 points, a right
\* chain of 5 points (in reverse order) and a start cap, without an end cap:
\* the chain points are 10, 9.25, 9.25, 8.4 and 6.7 units from their stroke
\* points.
C23_TaperedRing ==
  FiveColinear =>
    /\ sections = <<0>>
    /\ Len(out) = 5 + 5 + StartCapSteps
    /\ \A i \in 1..5 :
         /\ Dist(out[i], points[i].p) = FiveRadii[i]
         /\ Dist(out[5 + i], points[6 - i].p) = FiveRadii[6 - i]
         /\ sub(points[i].p, out[i]) = sub(out[11 - i], points[i].p)
    /\ \A k \in 1..StartCapSteps :
         out[10 + k] = [rot |-> out[10], about |-> points[1].p, turns |-> k]

\* The scenario: the outline of the five points has been computed.
C23_Witness == FiveColinear /\ out # <<>>

(***************************************************************************)
(* Spreading                                                               *)
(***************************************************************************)
\* The timestamps of the stored points of the Stroke w of stroke.ts do not
\* decrease.
NonDecreasing(w) ==
  \A i \in 1..(Len(w.points) - 1) :
    ~RLt(w.heap[w.points[i + 1].p].t, w.heap[w.points[i].p].t)

\* The first now at which isSpreading(now) is false
SpreadEnd(w) == RAdd(w.heap[Last(w.points).p].t, I(SpreadInterval))

\* Times that pass before outline is queried again
Later == {1, 40, 1000}

\* C24: on a Stroke of stroke.ts whose timestamps do not decrease, outline
\* returns at every later now what it returns at the first now at which
\* isSpreading(now) is false, and so the same result for any two nows from
\* there on.  Every Stroke there is is looked at in the states before its
\* outline is called.
C24_OutlineSettles ==
  (op.name # "outline" /\ Len(time.points) > 0 /\ NonDecreasing(time)) =>
    /\ ~isSpreading(time, SpreadEnd(time))
    /\ \A i \in DOMAIN time.segments, size \in Sizes, withTail \in BOOLEAN :
         \E o \in {Stroke_outline(time, time.segments[i], size, SpreadEnd(time), withTail)} :
           \A d \in Later :
             Stroke_outline(time, time.segments[i], size,
                            RAdd(SpreadEnd(time), I(d)), withTail) = o

\* outline was called on a stroke of two points or more that had stopped
\* spreading.
C24_Witness ==
  /\ op.name = "outline"
  /\ Len(time.points) >= 2
  /\ NonDecreasing(time)
  /\ ~isSpreading(time, I(op.now))
  /\ Len(tout) > TDotSteps

(***************************************************************************)
(* Where the sections are split                                            *)
(***************************************************************************)
\* The place c continues the way from the place a to the place b: the three
\* are on one line and c is not on the side of b that a is on.
Continues(a, b, c) ==
  /\ RSub(RMul(RSub(b.x, a.x), RSub(c.y, b.y)),
          RMul(RSub(b.y, a.y), RSub(c.x, b.x))) = I(0)
  /\ ~RLt(dot(sub(b, a), sub(c, b)), I(0))

\* The places ps are those of a straight line drawn in one direction.
Straight(ps) == \A i \in 2..(Len(ps) - 1) : Continues(ps[i - 1], ps[i], ps[i + 1])

\* The places of the stored points of the two Strokes
Places == [i \in 1..Len(points) |-> points[i].p]
TPlaces == [i \in 1..Len(time.points) |->
              Vec(time.heap[time.points[i].p].x, time.heap[time.points[i].p].y)]

\* C25: when the stored points are those of a straight line drawn in one
\* direction, sections (segments) is [0], on both Strokes.
C25_StraightLineOneSection ==
  /\ Straight(Places) => sections = <<0>>
  /\ Straight(TPlaces) => time.segments = <<0>>

\* An insert ended with a straight line of three points or more, after a
\* sample was skipped.
C25_Witness ==
  /\ op.name = "insert"
  /\ Len(fed) > Len(points)
  /\ Len(points) >= 3
  /\ Len(time.points) >= 3
  /\ Straight(Places)
  /\ Straight(TPlaces)
  /\ Places[1] # Places[Len(points)]

\* The stored point at the 0-based index i is a sharp corner: it is less
\* than MinDistance away from the point before it and its direction turns
\* back on that point's direction.
SharpCorner(pts, i) ==
  /\ RLt(pts[i + 1].d, I(MinDistance))
  /\ RLt(dot(pts[i + 1].v, pts[i].v), I(0))

C27_NoAdjacentBoundaries ==
  \A k \in 1..(Len(sections) - 1) :
    sections[k + 1] - sections[k] >= CoolingDown + 1

(***************************************************************************)
(* The shape of an outline                                                 *)
(***************************************************************************)
\* The slice that the last outline call worked on: end (0 for undefined),
\* the 0-based index a of its first point and the number k of its points.
SliceOf(secs, n, from) ==
  LET end == find(secs, from, 1)
      a == IF from > 0 THEN from - 1 ELSE from
      b == IF end = 0 \/ end > n THEN n ELSE end
  IN [end |-> end, a |-> a, k |-> IF b > a THEN b - a ELSE 0]

\* q is the outline of the k places ps: k left points, e points of an end
\* cap, the k right points in reverse order, each one opposite its left
\* point across its place, and cap points of a start cap; the caps turn
\* about the last and the first place, from the turn first on.  v is the
\* direction of travel at the last place: the last left point is on the
\* side of it that a quarter turn clockwise (y pointing up) leads to.
Ring(q, ps, v, e, cap, first) ==
  LET k == Len(ps) IN
    /\ Len(q) = k + e + k + cap
    /\ \A i \in 1..k :
         /\ q[i] \in [x : Int \X Int, y : Int \X Int]
         /\ add(q[i], q[2 * k + e + 1 - i]) = mul(ps[i], I(2))
    /\ RLt(I(0), dot(sub(q[k], ps[k]), Vec(v.y, RSub(I(0), v.x))))
    /\ \A j \in 1..cap :
         q[2 * k + e + j] = rot(q[2 * k + e], ps[1], j - 1 + first)
    /\ \A j \in 1..e :
         \E start \in {IF first = 0 THEN q[k + 1] ELSE q[k + 1].rot} :
           q[k + j] = rot(start, ps[k], j - 1 + first)

\* C28: the outline of a slice of two points or more is the k left points,
\* the end cap, the k right points in reverse order and the start cap; the
\* end cap is there exactly when the tail policy did not trigger, and it
\* is there on every section but the last.  On both Strokes.
C28_OutlineOrder ==
  op.name = "outline" =>
    /\ LET c == SliceOf(sections, Len(points), op.from)
           work == slice(points, c.a, c.a + c.k)
           e == IF drawTail(work, c.end, op.size) THEN 0 ELSE EndCapSteps
       IN c.k >= 2 =>
            /\ Ring(out, [i \in 1..c.k |-> points[c.a + i].p],
                    neg(points[c.a + c.k].v), e, StartCapSteps, 1)
            /\ c.end # 0 => e = EndCapSteps
    /\ LET c == SliceOf(time.segments, Len(time.points), op.from)
           raws == [i \in 1..c.k |-> time.heap[time.points[c.a + i].p]]
           thin == /\ op.tail
                   /\ c.end = 0
                   /\ \/ raws[1].p \in {Half, One}
                      \/ RLt(raws[c.k].p, TailPressure)
           e == IF thin THEN 0 ELSE TEndCapSteps
       IN c.k >= 2 =>
            /\ Ring(tout, [i \in 1..c.k |-> Vec(raws[i].x, raws[i].y)],
                    time.points[c.a + c.k].v, e, TStartCapSteps, 0)
            /\ c.end # 0 => e = TEndCapSteps

\* outline was called on a closed section of both Strokes and returned end
\* caps.
C28_Witness ==
  /\ op.name = "outline"
  /\ SliceOf(sections, Len(points), op.from).k >= 2
  /\ SliceOf(sections, Len(points), op.from).end # 0
  /\ SliceOf(time.segments, Len(time.points), op.from).k >= 2
  /\ SliceOf(time.segments, Len(time.points), op.from).end # 0
  /\ Len(out) = 4 + EndCapSteps + StartCapSteps
  /\ Len(tout) = 4 + TEndCapSteps + TStartCapSteps

(***************************************************************************)
(* The width of an outline                                                 *)
(***************************************************************************)
\* The square of the distance between the places a and b
DistSq(a, b) ==
  RAdd(RMul(RSub(a.x, b.x), RSub(a.x, b.x)), RMul(RSub(a.y, b.y), RSub(a.y, b.y)))

\* a <= b
RLe(a, b) == ~IsNaN(a) /\ ~IsNaN(b) /\ ~RLt(b, a)

\* C29: in the outline of a slice of two points or more, the left and the
\* right chain point of every slice point are at a distance from it of
\* MinRadius or more and of max(size / 2, MinRadius) or less.
C29_WidthBound ==
  op.name = "outline" =>
    LET c == SliceOf(sections, Len(points), op.from)
        top == RMax(R(op.size, 2), MinRadius)
    IN c.k >= 2 =>
         \A i \in 1..c.k :
           \A q \in {out[i], out[Len(out) - StartCapSteps + 1 - i]} :
             /\ RLe(RMul(MinRadius, MinRadius), DistSq(q, points[c.a + i].p))
             /\ RLe(DistSq(q, points[c.a + i].p), RMul(top, top))

\* C30: on a stroke of one point with pressure r, outline(0, size) returns
\* points that are all at the distance size * DotSize * r from the stored
\* point: the first one is, and the others are rotations of it about the
\* stored point.
C30_DotRadius ==
  (op.name = "outline" /\ op.from = 0 /\ Len(points) = 1) =>
    LET radius == RMul(RMul(I(op.size), DotSize), points[1].r)
    IN /\ out # <<>>
       /\ DistSq(out[1], points[1].p) = RMul(radius, radius)
       /\ \A k \in 2..Len(out) : out[k] = rot(out[1], points[1].p, k - 1)

\* The Stroke s with another pressure recorded for its point of index k
WithPressure(s, k, r) == [s EXCEPT !.points[k + 1].r = r]

\* Pressures that a pen reports, none of them the 0.5 or 1.0 of a mouse
PenPressure == {R(1, 4), R(3, 4)}

\* C31: two strokes that differ only in the recorded pressure of the slice
\* point at position i > 0, both outlined with an end cap (no tail), have
\* different chain points at position i.
C31_OwnPressureMatters ==
  op.name = "outline" =>
    LET c == SliceOf(sections, Len(points), op.from)
        n == 2 * c.k + StartCapSteps + EndCapSteps
    IN (c.k >= 2 /\ Len(out) = n) =>
         \A i \in 2..c.k : \A r \in PenPressure \ {points[c.a + i].r} :
           \E o \in {outline(WithPressure(stroke, c.a + i - 1, r), op.from, op.size).out} :
             Len(o) = n => <<o[i], o[n - StartCapSteps + 1 - i]>>
                             # <<out[i], out[n - StartCapSteps + 1 - i]>>

\* The pressure of the raw point of a stored point of stroke.ts at the time
\* now, as outline() uses it for a dot
SpreadAt(w, i, now) == pressureTillNow(w.heap[w.points[i].p], now)

\* C33: the pressure that outline(from, size, now) adjusts to the time now
\* lies between the recorded pressure p and min(p + SpreadAmount, 1), and a
\* later now does not give a smaller one.
C33_SpreadBounded ==
  op.name = "outline" =>
    \A i \in 1..Len(time.points) :
      \E p \in {time.heap[time.points[i].p].p}, q \in {SpreadAt(time, i, I(op.now))} :
        /\ RLe(p, q)
        /\ RLe(q, RMin(RAdd(p, SpreadAmount), I(1)))
        /\ \A d \in Later : RLe(q, SpreadAt(time, i, I(op.now + d)))

\* C32: outline(from, size) returns an empty array when from is not zero
\* and is no element of sections.
C32_EmptyOffSections ==
  (/\ op.name = "outline"
   /\ op.from # 0
   /\ \A i \in DOMAIN sections : sections[i] # op.from) => out = <<>>

\* a is between b and c
Between(a, b, c) == (RLe(b, a) /\ RLe(a, c)) \/ (RLe(c, a) /\ RLe(a, b))

\* C34: every value that update(dt) returns lies between the value the
\* Spring was created with and its target, and is no farther from the
\* target than the value before it.
C34_NoOvershoot ==
  sprung # <<>> =>
    \A i \in 2..Len(sprung) :
      /\ Between(sprung[i], sprung[1], spring.target)
      /\ RLe(RAbs(RSub(spring.target, sprung[i])),
             RAbs(RSub(spring.target, sprung[i - 1])))

\* C35: the Spring comes to its target and stays there: an update() that
\* returned the target is followed only by updates that return it, and a
\* Spring that update() leaves as it is has the value of its target.
C35_ReachesAndStays ==
  sprung # <<>> =>
    /\ \A i \in 2..Len(sprung) :
         sprung[i] = spring.target => \A j \in i..Len(sprung) : sprung[j] = spring.target
    /\ \A dt \in SpringSteps :
         Spring_update(spring, dt) = spring => spring.value = spring.target

\* length - l of the last stored point is 0 or more and less than skip
SkippedBelow(len, l, skip) ==
  /\ RLe(I(0), RSub(len, l))
  /\ RLt(RSub(len, l), I(skip))

\* C36: on a non-empty stroke made by create, push and insert, the length
\* minus the running length l of the last stored point, the distance that
\* skipped samples added since, is 0 or more and less than SkipDistance;
\* the same for the Stroke of stroke.ts.
C36_SkippedBelowThreshold ==
  /\ Len(points) > 0 => SkippedBelow(length, Last(points).l, SkipDistance)
  /\ Len(time.points) > 0 =>
       SkippedBelow(time.length, Last(time.points).l, TSkipDistance)

\* A push or an insert ended with skipped samples behind the last point of
\* a stroke of two points or more.
C36_Witness ==
  /\ op.name \in {"push", "insert"}
  /\ Len(points) >= 2
  /\ RLt(Last(points).l, length)
  /\ Len(time.points) >= 2
  /\ RLt(Last(time.points).l, time.length)

\* C37: the stroke that Stroke.create(raw) returns has the points (their
\* positions and pressures), the length and the sections of the stroke that
\* Stroke.create() followed by push(p) for each p of raw ends with.
C37_CreateEqualsPushes ==
  op.name = "create" =>
    \E t \in {pushAll(create(<<>>), op.raw, FALSE)} :
      /\ Len(points) = Len(t.points)
      /\ \A i \in 1..Len(points) :
           points[i].p = t.points[i].p /\ points[i].r = t.points[i].r
      /\ length = t.length
      /\ sections = t.sections

\* C38: once the pointerup or the pointercancel of a pointer is delivered,
\* the stroke that an 'open' began for its id is ended by a 'close' or a
\* 'cancel': no stroke of the id is open.
C38_NoStrokeLeftOpen ==
  dom.event.type \in {"pointerup", "pointercancel"} => dom.event.id \notin heard.open

\* C39: 'update', 'close' and 'cancel' are emitted for a pointerId only
\* while a stroke of that id is open.
C39_OnlyOpenStrokes == heard.stray = <<>>
====
